---- MODULE Spec2Model ----
(***************************************************************************)
(* WyzeMeshLight: the accessory adapter between the Wyze property list and *)
(* the HomeKit Lightbulb characteristics (src/accessories/WyzeMeshLight.js)*)
(*                                                                         *)
(* JavaScript `undefined` in a numeric cache field is written `undefined`  *)
(* (an integer outside every value domain); an undefined hex string is the *)
(* empty tuple.  A hex colour string is a tuple of six one-character       *)
(* strings.                                                                *)
(***************************************************************************)
EXTENDS Integers, Sequences, FiniteSets, TLC

VARIABLES cache, cacheUpdated, chars, ops, writes, remap

vars == <<cache, cacheUpdated, chars, ops, writes, remap>>

\* ---------------------------------------------------------------- constants
WYZE_API_POWER_PROPERTY == "P3"
WYZE_API_BRIGHTNESS_PROPERTY == "P1501"
WYZE_API_COLOR_TEMP_PROPERTY == "P1502"
WYZE_API_COLOR_PROPERTY == "P1507"

WYZE_COLOR_TEMP_MIN == 1800
WYZE_COLOR_TEMP_MAX == 6500
HOMEKIT_COLOR_TEMP_MIN == 153
HOMEKIT_COLOR_TEMP_MAX == 555

undefined == -1
undefinedHex == <<>>

\* ------------------------------------------------------------------- bounds
\* number of handler invocations (local writes and updateCharacteristics
\* calls together) a behaviour may start
MaxOps == 3
\* how far outside the colour temperature ranges the remap inputs reach
DevMargin == 30
UiMargin == 3

\* input domains of the handlers (values at which the double arithmetic of
\* the colour conversion is exact, so that the rational arithmetic below
\* computes what the JavaScript computes)
OnVals == BOOLEAN
\* device.device_params.switch_state as updateCharacteristics receives it
\* (the On characteristic starts FALSE, so TRUE is the value that shows)
PowerVals == {TRUE}
BrightVals == {40}
CtVals == {153, 555}
HueVals == {0, 120}
SatVals == {50}
Errors == {"e1"}
Outcomes == {"ok"} \cup Errors

\* ------------------------------------------------------- numeric helpers
Abs(x) == IF x < 0 THEN -x ELSE x

Max2(a, b) == IF a >= b THEN a ELSE b

Min2(a, b) == IF a <= b THEN a ELSE b

\* Math.round(n / d) for d > 0: the nearest integer, ties towards +infinity
MathRound(n, d) == (2 * n + d) \div (2 * d)

\* a slip in _floatToRange: the destination minimum is not added back
RangeRemapNoMin(value, smin, smax, dmin, dmax) ==
  MathRound((value - smin) * (dmax - dmin), smax - smin)

\* a slip in _rangeToFloat: the source minimum is not subtracted
RangeRemapNoShift(value, smin, smax, dmin, dmax) ==
  MathRound(value * (dmax - dmin) + dmin * (smax - smin), smax - smin)

\* a slip: an explicit inversion step, the source minimum goes to the
\* destination maximum
RangeRemapInverted(value, smin, smax, dmin, dmax) ==
  MathRound((smax - value) * (dmax - dmin) + dmin * (smax - smin), smax - smin)

\* a slip: the projected value is clamped to the destination range
RangeRemapClamped(value, smin, smax, dmin, dmax) ==
  Max2(dmin, Min2(dmax,
    MathRound((value - smin) * (dmax - dmin) + dmin * (smax - smin), smax - smin)))

\* _floatToRange(_rangeToFloat(value, smin, smax), dmin, dmax): the float
\* (value - smin) / (smax - smin) is kept as an exact fraction
RangeRemap(value, smin, smax, dmin, dmax) ==
  MathRound((value - smin) * (dmax - dmin) + dmin * (smax - smin), smax - smin)

\* updateColorTemp's conversion: device range to HomeKit range
deviceToUI(v) ==
  RangeRemap(v, WYZE_COLOR_TEMP_MIN, WYZE_COLOR_TEMP_MAX,
             HOMEKIT_COLOR_TEMP_MIN, HOMEKIT_COLOR_TEMP_MAX)

\* setColorTemperature's conversion: HomeKit range to device range
uiToDevice(u) ==
  RangeRemap(u, HOMEKIT_COLOR_TEMP_MIN, HOMEKIT_COLOR_TEMP_MAX,
             WYZE_COLOR_TEMP_MIN, WYZE_COLOR_TEMP_MAX)

\* ------------------------------------------------------ colour conversion
HexChars == <<"0", "1", "2", "3", "4", "5", "6", "7",
              "8", "9", "A", "B", "C", "D", "E", "F">>

LowerHexChars == <<"0", "1", "2", "3", "4", "5", "6", "7",
                   "8", "9", "a", "b", "c", "d", "e", "f">>

\* one byte as two upper-case hex digits (toString(16).toUpperCase(), padded)
HexByte(n) == <<HexChars[(n \div 16) + 1], HexChars[(n % 16) + 1]>>

\* parseInt of one hex digit, either case
HexDigitValue(c) ==
  CHOOSE k \in 0..15 : HexChars[k + 1] = c \/ LowerHexChars[k + 1] = c

\* ColorConverter.hsv.rgb(h, s, v): undefined when h is undefined; a NaN
\* component (s undefined) is written NaN == -2
NaN == -2

HsvToRgb(h, s, v) ==
  IF h = undefined THEN <<>>
  ELSE
    LET hi == (h \div 60) % 6
        fn == h % 60
        vv == MathRound(255 * v, 100)
        p  == IF s = undefined THEN NaN
              ELSE MathRound(255 * v * (100 - s), 10000)
        q  == IF s = undefined THEN NaN
              ELSE MathRound(255 * v * (6000 - s * fn), 600000)
        t  == IF s = undefined THEN NaN
              ELSE MathRound(255 * v * (6000 - s * (60 - fn)), 600000)
    IN CASE hi = 0 -> <<vv, t, p>>
         [] hi = 1 -> <<q, vv, p>>
         [] hi = 2 -> <<p, vv, t>>
         [] hi = 3 -> <<p, q, vv>>
         [] hi = 4 -> <<t, p, vv>>
         [] OTHER  -> <<vv, p, q>>

\* (Math.round(c) & 0xFF): NaN becomes 0
ByteOf(c) == IF c = NaN THEN 0 ELSE c % 256

\* ColorConverter.rgb.hex(rgb): undefined when rgb is undefined
RgbToHex(rgb) ==
  IF rgb = <<>> THEN undefinedHex
  ELSE HexByte(ByteOf(rgb[1])) \o HexByte(ByteOf(rgb[2])) \o HexByte(ByteOf(rgb[3]))

\* the hex value applyColorCache writes for the cached hue and saturation
HsvToHex(h, s, v) == RgbToHex(HsvToRgb(h, s, v))

\* ColorConverter.hex.rgb(hex)
HexToRgb(hex) ==
  << 16 * HexDigitValue(hex[1]) + HexDigitValue(hex[2]),
     16 * HexDigitValue(hex[3]) + HexDigitValue(hex[4]),
     16 * HexDigitValue(hex[5]) + HexDigitValue(hex[6]) >>

\* ColorConverter.rgb.hsv(rgb), rounded
RgbToHsv(rgb) ==
  LET r == rgb[1]
      g == rgb[2]
      b == rgb[3]
      mx == Max2(r, Max2(g, b))
      mn == Min2(r, Min2(g, b))
      diff == mx - mn
      raw == IF r = mx THEN 60 * (g - b)
             ELSE IF g = mx THEN 120 * diff + 60 * (b - r)
             ELSE 240 * diff + 60 * (r - g)
      hnum == IF raw < 0 THEN raw + 360 * diff
              ELSE IF raw > 360 * diff THEN raw - 360 * diff
              ELSE raw
  IN IF diff = 0 THEN <<0, 0, MathRound(100 * mx, 255)>>
     ELSE <<MathRound(hnum, diff), MathRound(100 * diff, mx), MathRound(100 * mx, 255)>>

HexToHsv(hex) == RgbToHsv(HexToRgb(hex))

\* ------------------------------------------------------------ value tags
\* a value crossing an interface: a number, a string (tuple of characters),
\* a boolean, or undefined
Num(n) == [t |-> "num", n |-> n, s |-> <<>>, b |-> FALSE]

Str(s) == [t |-> "str", n |-> 0, s |-> s, b |-> FALSE]

Bool(b) == [t |-> "bool", n |-> 0, s |-> <<>>, b |-> b]

\* the hex string handed to setBufferedProperty (undefined when the
\* conversion returned undefined)
HexVal(hex) == IF hex = undefinedHex THEN [t |-> "undef", n |-> 0, s |-> <<>>, b |-> FALSE]
               ELSE Str(hex)

Prop(pid, value) == [pid |-> pid, value |-> value]

\* property lists getPropertyList may deliver (order is not guaranteed, ids
\* this adapter does not know may appear, colour strings come in either case)
PropLists ==
  { <<Prop(WYZE_API_POWER_PROPERTY, Str(<<"0">>)),
      Prop(WYZE_API_BRIGHTNESS_PROPERTY, Num(70)),
      Prop(WYZE_API_COLOR_TEMP_PROPERTY, Num(1800))>>,
    <<Prop("P1999", Num(5)),
      Prop(WYZE_API_COLOR_TEMP_PROPERTY, Num(6500)),
      Prop(WYZE_API_COLOR_PROPERTY, Str(<<"0", "0", "0", "0", "8", "0">>))>> }

\* ------------------------------------------------------------------ state
\* cache        this.cache {hue, saturation, brightness}
\* cacheUpdated this.cacheUpdated (the pendingColorWrite flag)
\* chars        the values last pushed into / held by the characteristics
\* ops          every handler invocation so far, in the order they started:
\*              kind, argument, position (awaiting / done / failed), the
\*              callback invocations it made, and observations taken at its
\*              start (solo: no other invocation was in flight; before: the
\*              cache) and, for updateCharacteristics, the property list it
\*              received, the characteristics and cache it left (after) and
\*              whether it ran from start to end with nothing else in flight
\*              or starting (quiet)
\* writes       every setBufferedProperty call so far, in order, with the
\*              invocation that made it and the state of its promise
Snapshot(ch, ca) == [chars |-> ch, cache |-> ca]

\* this.cache = {}
EmptyCache == [hue |-> undefined, saturation |-> undefined, brightness |-> undefined]

\* the values the Lightbulb characteristics hold before the adapter touches
\* them (the framework's defaults)
DefaultChars == [On |-> FALSE, Brightness |-> 0, ColorTemperature |-> 140,
                 Hue |-> 0, Saturation |-> 0]

NewOp(kind, value, pc, cb) ==
  [kind |-> kind, value |-> value, pc |-> pc, cb |-> cb,
   solo |-> \A j \in DOMAIN ops : ops[j].pc # "awaiting",
   before |-> cache, after |-> Snapshot(DefaultChars, EmptyCache), list |-> <<>>,
   quiet |-> FALSE]

NewWrite(pid, value) ==
  [pid |-> pid, value |-> value, op |-> Len(ops) + 1,
   status |-> "pending", err |-> "none"]

SetKinds == {"setOn", "setBrightness", "setColorTemperature", "setHue", "setSaturation"}

\* the setBufferedProperty calls made by invocation i, in order
WritesOf(i) == SelectSeq(writes, LAMBDA w : w.op = i)

\* the remote colour writes so far, in order
ColorWrites == SelectSeq(writes, LAMBDA w : w.pid = WYZE_API_COLOR_PROPERTY)

\* invocation i is a local write suspended at its await
Awaiting(i) ==
  /\ i \in DOMAIN ops
  /\ ops[i].pc = "awaiting"
  /\ ops[i].kind \in SetKinds

\* the promise invocation i awaits settles: it resolves ("ok") or rejects
\* with an error
Settle(i, outcome) ==
  [w \in DOMAIN writes |->
     IF writes[w].op = i /\ writes[w].status = "pending"
     THEN [writes[w] EXCEPT !.status = IF outcome = "ok" THEN "resolved" ELSE "rejected",
                            !.err = IF outcome = "ok" THEN "none" ELSE outcome]
     ELSE writes[w]]

\* a slip: callback() placed before the await, so that a rejection reaches
\* the catch block after the success callback was already made
FinishCallbackEarly(i, outcome) ==
  [ops EXCEPT ![i].pc = "done",
              ![i].cb = IF outcome = "ok" THEN Append(@, "ok")
                        ELSE Append(Append(@, "ok"), outcome)]

\* the handler ends: callback() after a resolved await, callback(e) from the
\* catch block after a rejected one
Finish(i, outcome) ==
  [ops EXCEPT ![i].pc = "done", ![i].cb = Append(@, outcome)]

\* the constructor: empty cache, idle coalescing machine; the Lightbulb
\* characteristics hold the framework's defaults
Init ==
  /\ cache = EmptyCache
  /\ cacheUpdated = FALSE
  /\ chars = DefaultChars
  /\ ops = <<>>
  /\ writes = <<>>
  /\ remap = [dir |-> "none", chain |-> <<>>]

\* ------------------------------------------------- local write handlers
\* setOn up to its await
SetOn(value) ==
  /\ Len(ops) < MaxOps
  /\ writes' = Append(writes, NewWrite(WYZE_API_POWER_PROPERTY,
                                       Str(<<IF value THEN "1" ELSE "0">>)))
  /\ ops' = Append(ops, NewOp("setOn", Bool(value), "awaiting", <<>>))
  /\ UNCHANGED <<cache, cacheUpdated, chars, remap>>

\* setOn after its await: callback() or callback(e)
SetOnResume(i, outcome) ==
  /\ Awaiting(i)
  /\ ops[i].kind = "setOn"
  /\ writes' = Settle(i, outcome)
  /\ ops' = Finish(i, outcome)
  /\ UNCHANGED <<cache, cacheUpdated, chars, remap>>

\* a slip: the cache takes the brightness before the write is awaited
SetBrightnessEager(value) ==
  /\ Len(ops) < MaxOps
  /\ writes' = Append(writes, NewWrite(WYZE_API_BRIGHTNESS_PROPERTY, Num(value)))
  /\ cache' = [cache EXCEPT !.brightness = value]
  /\ ops' = Append(ops, NewOp("setBrightness", Num(value), "awaiting", <<>>))
  /\ UNCHANGED <<cacheUpdated, chars, remap>>

SetBrightness(value) ==
  /\ Len(ops) < MaxOps
  /\ writes' = Append(writes, NewWrite(WYZE_API_BRIGHTNESS_PROPERTY, Num(value)))
  /\ ops' = Append(ops, NewOp("setBrightness", Num(value), "awaiting", <<>>))
  /\ UNCHANGED <<cache, cacheUpdated, chars, remap>>

\* a slip: the cache takes the brightness before the write is known to have
\* succeeded
SetBrightnessResumeAlways(i, outcome) ==
  /\ Awaiting(i)
  /\ ops[i].kind = "setBrightness"
  /\ writes' = Settle(i, outcome)
  /\ cache' = [cache EXCEPT !.brightness = ops[i].value.n]
  /\ ops' = Finish(i, outcome)
  /\ UNCHANGED <<cacheUpdated, chars, remap>>

\* the cache takes the brightness only when the write resolved
SetBrightnessResume(i, outcome) ==
  /\ Awaiting(i)
  /\ ops[i].kind = "setBrightness"
  /\ writes' = Settle(i, outcome)
  /\ cache' = IF outcome = "ok"
              THEN [cache EXCEPT !.brightness = ops[i].value.n]
              ELSE cache
  /\ ops' = Finish(i, outcome)
  /\ UNCHANGED <<cacheUpdated, chars, remap>>

\* a slip: the HomeKit value is written without the range remap
SetColorTemperatureVerbatim(value) ==
  /\ Len(ops) < MaxOps
  /\ writes' = Append(writes, NewWrite(WYZE_API_COLOR_TEMP_PROPERTY, Num(value)))
  /\ ops' = Append(ops, NewOp("setColorTemperature", Num(value), "awaiting", <<>>))
  /\ UNCHANGED <<cache, cacheUpdated, chars, remap>>

SetColorTemperature(value) ==
  /\ Len(ops) < MaxOps
  /\ writes' = Append(writes, NewWrite(WYZE_API_COLOR_TEMP_PROPERTY,
                                       Num(uiToDevice(value))))
  /\ ops' = Append(ops, NewOp("setColorTemperature", Num(value), "awaiting", <<>>))
  /\ UNCHANGED <<cache, cacheUpdated, chars, remap>>

SetColorTemperatureResume(i, outcome) ==
  /\ Awaiting(i)
  /\ ops[i].kind = "setColorTemperature"
  /\ writes' = Settle(i, outcome)
  /\ ops' = Finish(i, outcome)
  /\ UNCHANGED <<cache, cacheUpdated, chars, remap>>

\* a slip: no coalescing, every hue or saturation write is flushed
ApplyColorCacheEager(kind, value, newCache) ==
  /\ cache' = newCache
  /\ writes' = Append(writes,
        NewWrite(WYZE_API_COLOR_PROPERTY,
                 HexVal(HsvToHex(newCache.hue, newCache.saturation, 100))))
  /\ ops' = Append(ops, NewOp(kind, Num(value), "awaiting", <<>>))
  /\ UNCHANGED <<cacheUpdated, chars, remap>>

\* a slip: the colour is encoded at the cached brightness, not at 100
ApplyColorCacheCachedBrightness(kind, value, newCache) ==
  /\ cache' = newCache
  /\ IF cacheUpdated
     THEN /\ writes' = Append(writes,
                NewWrite(WYZE_API_COLOR_PROPERTY,
                         HexVal(HsvToHex(newCache.hue, newCache.saturation,
                                         IF newCache.brightness = undefined
                                         THEN 100 ELSE newCache.brightness))))
          /\ ops' = Append(ops, NewOp(kind, Num(value), "awaiting", <<>>))
          /\ UNCHANGED cacheUpdated
     ELSE /\ cacheUpdated' = TRUE
          /\ ops' = Append(ops, NewOp(kind, Num(value), "done", <<"ok">>))
          /\ UNCHANGED writes
  /\ UNCHANGED <<chars, remap>>

\* a slip: the flag is cleared when the flush is issued, before the await
ApplyColorCacheDisarmFirst(kind, value, newCache) ==
  /\ cache' = newCache
  /\ IF cacheUpdated
     THEN /\ writes' = Append(writes,
                NewWrite(WYZE_API_COLOR_PROPERTY,
                         HexVal(HsvToHex(newCache.hue, newCache.saturation, 100))))
          /\ ops' = Append(ops, NewOp(kind, Num(value), "awaiting", <<>>))
          /\ cacheUpdated' = FALSE
     ELSE /\ cacheUpdated' = TRUE
          /\ ops' = Append(ops, NewOp(kind, Num(value), "done", <<"ok">>))
          /\ UNCHANGED writes
  /\ UNCHANGED <<chars, remap>>

\* applyColorCache up to its await (or to its end when nothing is awaited),
\* called by setHue / setSaturation with the cache they have just written
ApplyColorCache(kind, value, newCache) ==
  /\ cache' = newCache
  /\ IF cacheUpdated
     THEN /\ writes' = Append(writes,
                NewWrite(WYZE_API_COLOR_PROPERTY,
                         HexVal(HsvToHex(newCache.hue, newCache.saturation, 100))))
          /\ ops' = Append(ops, NewOp(kind, Num(value), "awaiting", <<>>))
          /\ UNCHANGED cacheUpdated
     ELSE /\ cacheUpdated' = TRUE
          /\ ops' = Append(ops, NewOp(kind, Num(value), "done", <<"ok">>))
          /\ UNCHANGED writes
  /\ UNCHANGED <<chars, remap>>

\* a slip: the flag is cleared after the await whatever its outcome
ApplyColorCacheResumeAlwaysClear(i, outcome) ==
  /\ Awaiting(i)
  /\ ops[i].kind \in {"setHue", "setSaturation"}
  /\ writes' = Settle(i, outcome)
  /\ cacheUpdated' = FALSE
  /\ ops' = Finish(i, outcome)
  /\ UNCHANGED <<cache, chars, remap>>

\* applyColorCache after its await
ApplyColorCacheResume(i, outcome) ==
  /\ Awaiting(i)
  /\ ops[i].kind \in {"setHue", "setSaturation"}
  /\ writes' = Settle(i, outcome)
  /\ cacheUpdated' = IF outcome = "ok" THEN FALSE ELSE cacheUpdated
  /\ ops' = Finish(i, outcome)
  /\ UNCHANGED <<cache, chars, remap>>

SetHue(value) ==
  /\ Len(ops) < MaxOps
  /\ ApplyColorCache("setHue", value, [cache EXCEPT !.hue = value])

SetSaturation(value) ==
  /\ Len(ops) < MaxOps
  /\ ApplyColorCache("setSaturation", value, [cache EXCEPT !.saturation = value])

\* ------------------------------------------------ remote-to-local projection
\* updateBrightness: the value goes to the characteristic verbatim
updateBrightness(st, value) ==
  [st EXCEPT !.chars.Brightness = value.n]

updateColorTemp(st, value) ==
  [st EXCEPT !.chars.ColorTemperature = deviceToUI(value.n)]

\* a slip: the characteristics are pushed from the cache before the cache
\* takes the decoded colour
updateColorStale(st, value) ==
  LET hslValue == HexToHsv(value.s)
  IN [st EXCEPT !.chars.Hue = st.cache.hue,
                !.chars.Saturation = st.cache.saturation,
                !.cache = [hue |-> hslValue[1], saturation |-> hslValue[2],
                           brightness |-> hslValue[3]]]

\* a slip: the decoded colour goes to the characteristics only
updateColorKeepCache(st, value) ==
  LET hslValue == HexToHsv(value.s)
  IN [st EXCEPT !.chars.Hue = hslValue[1],
                !.chars.Saturation = hslValue[2]]

\* updateColor: decode, push hue and saturation, overwrite the whole cache
updateColor(st, value) ==
  LET hslValue == HexToHsv(value.s)
  IN [st EXCEPT !.chars.Hue = hslValue[1],
                !.chars.Saturation = hslValue[2],
                !.cache = [hue |-> hslValue[1], saturation |-> hslValue[2],
                           brightness |-> hslValue[3]]]

\* a slip: a case for the power property that sets On from the list
ApplyPropertyWithPower(st, property) ==
  CASE property.pid = WYZE_API_BRIGHTNESS_PROPERTY -> updateBrightness(st, property.value)
    [] property.pid = WYZE_API_COLOR_TEMP_PROPERTY -> updateColorTemp(st, property.value)
    [] property.pid = WYZE_API_COLOR_PROPERTY -> updateColor(st, property.value)
    [] property.pid = WYZE_API_POWER_PROPERTY ->
         [st EXCEPT !.chars.On = (property.value.s = <<"1">>)]
    [] OTHER -> st

\* one iteration of the loop over the property list: the switch on pid
ApplyProperty(st, property) ==
  CASE property.pid = WYZE_API_BRIGHTNESS_PROPERTY -> updateBrightness(st, property.value)
    [] property.pid = WYZE_API_COLOR_TEMP_PROPERTY -> updateColorTemp(st, property.value)
    [] property.pid = WYZE_API_COLOR_PROPERTY -> updateColor(st, property.value)
    [] OTHER -> st

RECURSIVE ApplyPropertyList(_, _)
ApplyPropertyList(st, list) ==
  IF list = <<>> THEN st
  ELSE ApplyPropertyList(ApplyProperty(st, Head(list)), Tail(list))

\* updateCharacteristics up to its await: On takes the device's switch state
UpdateCharacteristics(power) ==
  /\ Len(ops) < MaxOps
  /\ chars' = [chars EXCEPT !.On = power]
  /\ ops' = Append(ops, NewOp("updateCharacteristics", Bool(power), "awaiting", <<>>))
  /\ UNCHANGED <<cache, cacheUpdated, writes, remap>>

\* a slip: a remote colour is taken for a pending local colour write
UpdateCharacteristicsResumeArming(i, list) ==
  /\ i \in DOMAIN ops
  /\ ops[i].kind = "updateCharacteristics"
  /\ ops[i].pc = "awaiting"
  /\ LET st == ApplyPropertyList(Snapshot(chars, cache), list)
     IN /\ chars' = st.chars
        /\ cache' = st.cache
        /\ ops' = [ops EXCEPT ![i].pc = "done", ![i].list = list, ![i].after = st,
                              ![i].quiet = (ops[i].solo /\ i = Len(ops))]
  /\ cacheUpdated' = IF \E k \in DOMAIN list : list[k].pid = WYZE_API_COLOR_PROPERTY
                     THEN TRUE ELSE cacheUpdated
  /\ UNCHANGED <<writes, remap>>

\* updateCharacteristics after getPropertyList delivered: the loop
UpdateCharacteristicsResume(i, list) ==
  /\ i \in DOMAIN ops
  /\ ops[i].kind = "updateCharacteristics"
  /\ ops[i].pc = "awaiting"
  /\ LET st == ApplyPropertyList(Snapshot(chars, cache), list)
     IN /\ chars' = st.chars
        /\ cache' = st.cache
        /\ ops' = [ops EXCEPT ![i].pc = "done", ![i].list = list, ![i].after = st,
                              ![i].quiet = (ops[i].solo /\ i = Len(ops))]
  /\ UNCHANGED <<cacheUpdated, writes, remap>>

\* getPropertyList rejected: updateCharacteristics ends without the loop
UpdateCharacteristicsFail(i) ==
  /\ i \in DOMAIN ops
  /\ ops[i].kind = "updateCharacteristics"
  /\ ops[i].pc = "awaiting"
  /\ ops' = [ops EXCEPT ![i].pc = "failed"]
  /\ UNCHANGED <<cache, cacheUpdated, chars, writes, remap>>

Next ==
  \/ \E v \in OnVals : SetOn(v)
  \/ \E v \in BrightVals : SetBrightness(v)
  \/ \E v \in CtVals : SetColorTemperature(v)
  \/ \E v \in HueVals : SetHue(v)
  \/ \E v \in SatVals : SetSaturation(v)
  \/ \E i \in 1..MaxOps, o \in Outcomes : SetOnResume(i, o)
  \/ \E i \in 1..MaxOps, o \in Outcomes : SetBrightnessResume(i, o)
  \/ \E i \in 1..MaxOps, o \in Outcomes : SetColorTemperatureResume(i, o)
  \/ \E i \in 1..MaxOps, o \in Outcomes : ApplyColorCacheResume(i, o)
  \/ \E p \in PowerVals : UpdateCharacteristics(p)
  \/ \E i \in 1..MaxOps, l \in PropLists : UpdateCharacteristicsResume(i, l)
  \/ \E i \in 1..MaxOps : UpdateCharacteristicsFail(i)

Spec == Init /\ [][Next]_vars

\* every awaited remote write settles and the continuation of its await runs
Resumes ==
  \E i \in 1..MaxOps, o \in Outcomes :
    \/ SetOnResume(i, o)
    \/ SetBrightnessResume(i, o)
    \/ SetColorTemperatureResume(i, o)
    \/ ApplyColorCacheResume(i, o)

FairSpec == Init /\ [][Next]_vars /\ WF_vars(Resumes)

\* ------------------------------------------------- the remap on its own
\* remap.chain starts with one input and grows by alternate conversions:
\* device -> UI -> device -> UI when the input is a device value,
\* UI -> device -> UI -> device when it is a HomeKit value
DevInputs == (WYZE_COLOR_TEMP_MIN - DevMargin)..(WYZE_COLOR_TEMP_MAX + DevMargin)

UiInputs == (HOMEKIT_COLOR_TEMP_MIN - UiMargin)..(HOMEKIT_COLOR_TEMP_MAX + UiMargin)

ChainLen == 4

RemapInit ==
  /\ cache = EmptyCache
  /\ cacheUpdated = FALSE
  /\ chars = DefaultChars
  /\ ops = <<>>
  /\ writes = <<>>
  /\ remap \in {[dir |-> "device", chain |-> <<v>>] : v \in DevInputs}
          \cup {[dir |-> "ui", chain |-> <<u>>] : u \in UiInputs}

\* the last value of the chain is a device value
LastIsDevice == (remap.dir = "device") = (Len(remap.chain) % 2 = 1)

ApplyDeviceToUI ==
  /\ remap.dir # "none"
  /\ Len(remap.chain) < ChainLen
  /\ LastIsDevice
  /\ remap' = [remap EXCEPT !.chain = Append(@, deviceToUI(remap.chain[Len(remap.chain)]))]
  /\ UNCHANGED <<cache, cacheUpdated, chars, ops, writes>>

ApplyUiToDevice ==
  /\ remap.dir # "none"
  /\ Len(remap.chain) < ChainLen
  /\ ~LastIsDevice
  /\ remap' = [remap EXCEPT !.chain = Append(@, uiToDevice(remap.chain[Len(remap.chain)]))]
  /\ UNCHANGED <<cache, cacheUpdated, chars, ops, writes>>

RemapNext == ApplyDeviceToUI \/ ApplyUiToDevice

RemapSpec == RemapInit /\ [][RemapNext]_vars

InDeviceRange(v) == WYZE_COLOR_TEMP_MIN <= v /\ v <= WYZE_COLOR_TEMP_MAX

InUiRange(u) == HOMEKIT_COLOR_TEMP_MIN <= u /\ u <= HOMEKIT_COLOR_TEMP_MAX

\* the chain began with an in-range device value / an in-range HomeKit value
DeviceChain == remap.dir = "device" /\ InDeviceRange(remap.chain[1])

UiChain == remap.dir = "ui" /\ InUiRange(remap.chain[1])

\* C9 as stated: the remap is reversible within one unit in both directions
C9_RoundTripWithinOne ==
  (Len(remap.chain) >= 3 /\ (DeviceChain \/ UiChain))
    => Abs(remap.chain[3] - remap.chain[1]) <= 1

\* C9 amended: a HomeKit value comes back within one unit (in fact exactly),
\* a device value comes back within six units: one HomeKit step is 4700/402,
\* about 11.7 device units, so rounding to a HomeKit integer loses up to 5.85
C9_RoundTripBounded ==
  /\ (Len(remap.chain) >= 3 /\ UiChain)
       => Abs(remap.chain[3] - remap.chain[1]) <= 1
  /\ (Len(remap.chain) >= 3 /\ DeviceChain)
       => Abs(remap.chain[3] - remap.chain[1]) <= 6

\* a device value whose round trip is off by the full six units
C9_Witness ==
  /\ Len(remap.chain) >= 3
  /\ DeviceChain
  /\ Abs(remap.chain[3] - remap.chain[1]) = 6

\* C10: for every device value v in range, deviceToUI(uiToDevice(deviceToUI(v)))
\* differs from deviceToUI(v) by at most 1
C10_RemapIdempotent ==
  (Len(remap.chain) = 4 /\ DeviceChain)
    => Abs(remap.chain[4] - remap.chain[2]) <= 1

\* a full device -> UI -> device -> UI chain whose device value did change
C10_Witness ==
  /\ Len(remap.chain) = 4
  /\ DeviceChain
  /\ remap.chain[3] # remap.chain[1]
  /\ remap.chain[4] = remap.chain[2]

\* ----------------------------------------------------- the adapter's claims
IsWrite(i) == i \in DOMAIN ops /\ ops[i].kind \in SetKinds

IsColorOp(i) == i \in DOMAIN ops /\ ops[i].kind \in {"setHue", "setSaturation"}

IsUpdate(i) == i \in DOMAIN ops /\ ops[i].kind = "updateCharacteristics"

\* invocation i issued a remote write and that write was rejected
Rejected(i) == WritesOf(i) # <<>> /\ WritesOf(i)[1].status = "rejected"

\* invocation i ran with nothing else in flight from its start until now:
\* nothing was suspended when it started and nothing has started since
Alone(i) == i = Len(ops) /\ ops[i].solo

\* C1: on a fresh adapter, setHue(h) then setSaturation(s) makes exactly one
\* remote colour write, the hex encoding of (h, s, 100); setHue(h) alone
\* makes none and its callback is invoked with no error
C1_HueThenSaturation ==
  /\ (Len(ops) = 1 /\ ops[1].kind = "setHue")
       => (ColorWrites = <<>> /\ ops[1].cb = <<"ok">>)
  /\ \A h \in HueVals, s \in SatVals :
       (Len(ops) = 2 /\ ops[1].kind = "setHue" /\ ops[1].value = Num(h)
                     /\ ops[2].kind = "setSaturation" /\ ops[2].value = Num(s))
         => /\ Len(ColorWrites) = 1
            /\ ColorWrites[1].op = 2
            /\ ColorWrites[1].value = Str(HsvToHex(h, s, 100))

\* setHue then setSaturation have both completed, the remote write resolved
C1_Witness ==
  /\ Len(ops) = 2
  /\ ops[1].kind = "setHue" /\ ops[1].value = Num(120)
  /\ ops[2].kind = "setSaturation" /\ ops[2].pc = "done" /\ ops[2].cb = <<"ok">>
  /\ Len(writes) = 1
  /\ writes[1].value = Str(<<"8", "0", "F", "F", "8", "0">>)

\* C2: a remote colour write is issued only if both a setHue and a
\* setSaturation were received since the previous remote colour write (since
\* construction if there was none)
C2_BothSinceLastWrite ==
  \A k \in DOMAIN ColorWrites :
    LET j == ColorWrites[k].op
        p == IF k = 1 THEN 0 ELSE ColorWrites[k - 1].op
    IN /\ \E i \in (p + 1)..j : ops[i].kind = "setHue"
       /\ \E i \in (p + 1)..j : ops[i].kind = "setSaturation"

C4_RejectLeavesCache ==
  \A i \in DOMAIN ops :
    (IsWrite(i) /\ Alone(i) /\ ops[i].pc = "done" /\ Rejected(i))
      => /\ ops[i].cb = <<WritesOf(i)[1].err>>
         /\ cache = ops[i].before

\* the cache a handler leaves when its remote write is rejected: setHue and
\* setSaturation have stored their value before the write was issued
CacheAfterReject(i) ==
  CASE ops[i].kind = "setHue" -> [ops[i].before EXCEPT !.hue = ops[i].value.n]
    [] ops[i].kind = "setSaturation" -> [ops[i].before EXCEPT !.saturation = ops[i].value.n]
    [] OTHER -> ops[i].before

\* C4 amended: after a rejected remote write the callback has the error; for
\* setOn, setBrightness and setColorTemperature no cache field differs from
\* its value before the write began; for setHue (setSaturation) only the hue
\* (saturation) differs, holding the value written
C4_RejectKeepsOtherFields ==
  \A i \in DOMAIN ops :
    (IsWrite(i) /\ Alone(i) /\ ops[i].pc = "done" /\ Rejected(i))
      => /\ ops[i].cb = <<WritesOf(i)[1].err>>
         /\ cache = CacheAfterReject(i)

\* setHue armed the machine, then the colour write of setSaturation was
\* rejected: the cache holds the saturation just written
C4_Witness ==
  /\ Len(ops) = 2
  /\ ops[1].kind = "setHue"
  /\ ops[2].kind = "setSaturation"
  /\ Alone(2) /\ ops[2].pc = "done" /\ Rejected(2)
  /\ ops[2].cb = <<"e1">>
  /\ ops[2].before.saturation = undefined
  /\ cache.saturation = 50

\* the value setOn, setBrightness and setColorTemperature hand to the remote
\* write, as the claim states it
ExpectedWrite(i) ==
  CASE ops[i].kind = "setOn" ->
         [pid |-> "P3", value |-> Str(<<IF ops[i].value.b THEN "1" ELSE "0">>)]
    [] ops[i].kind = "setBrightness" ->
         [pid |-> "P1501", value |-> ops[i].value]
    [] OTHER ->
         [pid |-> "P1502",
          value |-> Num(MathRound((ops[i].value.n - 153) * 4700 + 1800 * 402, 402))]

\* C5: setOn, setBrightness and setColorTemperature each issue exactly one
\* remote write, to P3, P1501, P1502 with the translated value, and the
\* callback is not invoked while that write is pending
C5_SingleWrite ==
  \A i \in DOMAIN ops :
    ops[i].kind \in {"setOn", "setBrightness", "setColorTemperature"}
      => /\ Len(WritesOf(i)) = 1
         /\ WritesOf(i)[1].pid = ExpectedWrite(i).pid
         /\ WritesOf(i)[1].value = ExpectedWrite(i).value
         /\ (ops[i].cb # <<>> => WritesOf(i)[1].status # "pending")

\* all three handlers have run to their callbacks
C5_Witness ==
  /\ Len(ops) = 3
  /\ ops[1].kind = "setOn" /\ ops[1].value.b /\ ops[1].cb = <<"ok">>
  /\ ops[2].kind = "setColorTemperature" /\ ops[2].value.n = 555 /\ ops[2].cb = <<"e1">>
  /\ ops[3].kind = "setBrightness" /\ ops[3].cb = <<"ok">>
  /\ writes[2].value = Num(6500)

\* C6: a hue or saturation write that found the machine idle armed it, issued
\* no remote write and made its callback at once; one that found it armed
\* issued exactly one remote colour write and, once its callback is made
\* (after the write settled), has left the machine idle
C6_TransitionTable ==
  \A i \in DOMAIN ops :
    (IsColorOp(i) /\ Alone(i))
      => IF WritesOf(i) = <<>>
         THEN cacheUpdated /\ ops[i].cb = <<"ok">>
         ELSE /\ Len(WritesOf(i)) = 1
              /\ WritesOf(i)[1].pid = WYZE_API_COLOR_PROPERTY
              /\ (ops[i].cb # <<>> => WritesOf(i)[1].status # "pending")
              /\ (ops[i].pc = "done" => ~cacheUpdated)

\* an updateCharacteristics invocation started or moved on in this step
UpdateStep ==
  \E i \in DOMAIN ops' :
    /\ ops'[i].kind = "updateCharacteristics"
    /\ (i \notin DOMAIN ops \/ ops[i].pc # ops'[i].pc)

\* C7: no step of updateCharacteristics changes cacheUpdated or issues a
\* remote write
C7_ProjectionKeepsFlag ==
  [][UpdateStep => (cacheUpdated' = cacheUpdated /\ writes' = writes)]_vars

\* a snapshot with a colour was projected while the machine was armed, and
\* one was projected while it was idle
C7_Witness ==
  /\ Len(ops) = 3
  /\ IsUpdate(1) /\ ops[1].pc = "done"
  /\ \E k \in DOMAIN ops[1].list : ops[1].list[k].pid = WYZE_API_COLOR_PROPERTY
  /\ IsColorOp(2)
  /\ IsUpdate(3) /\ ops[3].pc = "done"
  /\ \E k \in DOMAIN ops[3].list : ops[3].list[k].pid = WYZE_API_COLOR_PROPERTY
  /\ cacheUpdated

\* C8: updateCharacteristics applied twice in a row with the same power flag
\* and the same property list leaves the same characteristic values and the
\* same cache after the second call as after the first
C8_ProjectionIdempotent ==
  \A i \in DOMAIN ops :
    (/\ i + 1 \in DOMAIN ops
     /\ IsUpdate(i) /\ IsUpdate(i + 1)
     /\ ops[i].quiet /\ ops[i + 1].quiet
     /\ ops[i].pc = "done" /\ ops[i + 1].pc = "done"
     /\ ops[i].value = ops[i + 1].value
     /\ ops[i].list = ops[i + 1].list)
      => ops[i + 1].after = ops[i].after

\* after a local hue write, the same snapshot with a colour was projected twice
C8_Witness ==
  /\ Len(ops) = 3
  /\ ops[1].kind = "setHue"
  /\ IsUpdate(2) /\ IsUpdate(3)
  /\ ops[2].quiet /\ ops[3].quiet
  /\ ops[2].pc = "done" /\ ops[3].pc = "done"
  /\ ops[2].value = ops[3].value
  /\ ops[2].list = ops[3].list
  /\ ops[3].after.cache.hue = 240
  /\ ops[3].after.chars.Hue = 240

\* C11: a remote colour temperature of 1800 sets ColorTemperature to 153 and
\* 6500 sets it to 555; a local ColorTemperature write of 153 issues a P1502
\* write of 1800 and one of 555 issues 6500
C11_BoundaryValues ==
  /\ \A i \in DOMAIN ops :
       (IsUpdate(i) /\ ops[i].pc = "done")
         => \A k \in DOMAIN ops[i].list :
              ops[i].list[k].pid = "P1502"
                => /\ ops[i].list[k].value.n = 1800
                        => ops[i].after.chars.ColorTemperature = 153
                   /\ ops[i].list[k].value.n = 6500
                        => ops[i].after.chars.ColorTemperature = 555
  /\ \A i \in DOMAIN ops :
       ops[i].kind = "setColorTemperature"
         => /\ Len(WritesOf(i)) = 1
            /\ WritesOf(i)[1].pid = "P1502"
            /\ ops[i].value.n = 153 => WritesOf(i)[1].value = Num(1800)
            /\ ops[i].value.n = 555 => WritesOf(i)[1].value = Num(6500)

\* both remote boundary values were projected and a local 153 was written
C11_Witness ==
  /\ Len(ops) = 3
  /\ IsUpdate(1) /\ ops[1].pc = "done" /\ ops[1].after.chars.ColorTemperature = 153
  /\ IsUpdate(2) /\ ops[2].pc = "done" /\ ops[2].after.chars.ColorTemperature = 555
  /\ chars.ColorTemperature = 555
  /\ ops[3].kind = "setColorTemperature" /\ ops[3].value.n = 153
  /\ writes[1].value = Num(1800)

\* C12 as stated: every out-of-range input of the remap gives an out-of-range
\* output, in both directions
C12_NoClamping ==
  Len(remap.chain) >= 2
    => /\ (remap.dir = "device" /\ ~InDeviceRange(remap.chain[1]))
            => ~InUiRange(remap.chain[2])
       /\ (remap.dir = "ui" /\ ~InUiRange(remap.chain[1]))
            => ~InDeviceRange(remap.chain[2])

\* C12 amended: every HomeKit value outside [153, 555] gives a device value
\* outside [1800, 6500]; every device value at most 1794 or at least 6506
\* gives a HomeKit value outside [153, 555]; the device values 1795..1799 and
\* 6501..6505 round to the boundary values 153 and 555
C12_NoClampingBeyondRounding ==
  Len(remap.chain) >= 2
    => /\ (remap.dir = "ui" /\ ~InUiRange(remap.chain[1]))
            => ~InDeviceRange(remap.chain[2])
       /\ (remap.dir = "device" /\ (remap.chain[1] <= 1794 \/ remap.chain[1] >= 6506))
            => ~InUiRange(remap.chain[2])
       /\ (remap.dir = "device" /\ 1795 <= remap.chain[1] /\ remap.chain[1] <= 1799)
            => remap.chain[2] = 153
       /\ (remap.dir = "device" /\ 6501 <= remap.chain[1] /\ remap.chain[1] <= 6505)
            => remap.chain[2] = 555

\* the first device value above the range that leaves the HomeKit range
C12_Witness ==
  /\ Len(remap.chain) >= 2
  /\ remap.dir = "device"
  /\ remap.chain[1] = 6506
  /\ remap.chain[2] = 556

\* the entries of a property list this adapter has a case for
KnownProperties(list) ==
  SelectSeq(list, LAMBDA property : property.pid \in {"P1501", "P1502", "P1507"})

\* updateCharacteristics went past its await in this step
ProjectionStep(i) ==
  /\ i \in DOMAIN ops
  /\ ops[i].kind = "updateCharacteristics"
  /\ ops[i].pc = "awaiting"
  /\ ops'[i].pc = "done"

\* updateCharacteristics started in this step
ProjectionStart ==
  /\ Len(ops') = Len(ops) + 1
  /\ ops'[Len(ops')].kind = "updateCharacteristics"

\* C13: the entries of the property list whose id is not P1501, P1502 or
\* P1507 (unknown ids and the power id P3) have no effect: the projection
\* leaves the characteristics and the cache as the list without them would,
\* leaves On and cacheUpdated alone and ends normally; On is set from the
\* device's power flag, when updateCharacteristics starts
C13_UnknownPropertyIgnored ==
  [][/\ \A i \in 1..MaxOps :
          ProjectionStep(i)
            => /\ Snapshot(chars', cache')
                    = ApplyPropertyList(Snapshot(chars, cache),
                                        KnownProperties(ops'[i].list))
               /\ chars'.On = chars.On
               /\ cacheUpdated' = cacheUpdated
     /\ ProjectionStart => chars' = [chars EXCEPT !.On = ops'[Len(ops')].value.b]
    ]_vars

\* a list with the power id saying "0" and a list with an unknown id were
\* both projected, and On still is the power flag
C13_Witness ==
  /\ Len(ops) >= 2
  /\ IsUpdate(1) /\ ops[1].pc = "done"
  /\ \E k \in DOMAIN ops[1].list : ops[1].list[k] = Prop("P3", Str(<<"0">>))
  /\ IsUpdate(2) /\ ops[2].pc = "done"
  /\ \E k \in DOMAIN ops[2].list : ops[2].list[k].pid = "P1999"
  /\ chars.On = TRUE

\* setHue or setSaturation started in this step
ColorOpStart ==
  /\ Len(ops') = Len(ops) + 1
  /\ ops'[Len(ops')].kind \in {"setHue", "setSaturation"}

\* a colour write is awaited and none has resolved so far
FlushInFlight ==
  /\ \E k \in DOMAIN writes :
       writes[k].pid = "P1507" /\ writes[k].status = "pending"
  /\ \A k \in DOMAIN writes :
       writes[k].pid = "P1507" => writes[k].status # "resolved"

HasColor(list) ==
  \E k \in DOMAIN list : list[k].pid = "P1507"

\* the cache a projected colour leaves: the decoding of the list's last colour
RECURSIVE RemoteColor(_)
RemoteColor(list) ==
  IF list[Len(list)].pid = "P1507"
  THEN LET hslValue == HexToHsv(list[Len(list)].value.s)
       IN [hue |-> hslValue[1], saturation |-> hslValue[2],
           brightness |-> hslValue[3]]
  ELSE RemoteColor(SubSeq(list, 1, Len(list) - 1))

\* C15: when a remote colour is projected between an arming hue / saturation
\* write and the next hue / saturation write, the cache holds the decoded
\* remote hue, saturation and brightness after the projection, the machine is
\* still armed, and the next write flushes the colour made of its own field
\* and the other field of the remote colour, at value 100
C15_RemoteUpdateWhileArmed ==
  \A i \in DOMAIN ops :
    (/\ i + 2 \in DOMAIN ops
     /\ IsColorOp(i) /\ ops[i].solo /\ WritesOf(i) = <<>>
     /\ IsUpdate(i + 1) /\ ops[i + 1].quiet /\ ops[i + 1].pc = "done"
     /\ HasColor(ops[i + 1].list)
     /\ IsColorOp(i + 2))
      => LET remote == RemoteColor(ops[i + 1].list)
             flushed == IF ops[i + 2].kind = "setHue"
                        THEN HsvToHex(ops[i + 2].value.n, remote.saturation, 100)
                        ELSE HsvToHex(remote.hue, ops[i + 2].value.n, 100)
         IN /\ ops[i + 1].after.cache = remote
            /\ ops[i + 2].before = remote
            /\ Len(WritesOf(i + 2)) = 1
            /\ WritesOf(i + 2)[1].pid = "P1507"
            /\ WritesOf(i + 2)[1].value = HexVal(flushed)

\* setHue(0) armed, the remote colour 000080 (hue 240, saturation 100,
\* brightness 50) was projected, setSaturation(50) flushed hue 240 with
\* saturation 50
C15_Witness ==
  /\ Len(ops) = 3
  /\ ops[1].kind = "setHue" /\ ops[1].value.n = 0 /\ WritesOf(1) = <<>>
  /\ IsUpdate(2) /\ ops[2].quiet /\ HasColor(ops[2].list)
  /\ ops[2].after.cache = [hue |-> 240, saturation |-> 100, brightness |-> 50]
  /\ ops[3].kind = "setSaturation" /\ ops[3].value.n = 50
  /\ Awaiting(3)
  /\ cache = [hue |-> 240, saturation |-> 50, brightness |-> 50]
  /\ cacheUpdated
  /\ writes[1].value = HexVal(<<"8", "0", "8", "0", "F", "F">>)

\* C16: a setHue changes cache.hue only and a setSaturation cache.saturation
\* only; every colour write carries the encoding of the cache's hue and
\* saturation as they are when the write is issued, at value 100 whatever the
\* cached brightness
C16_ColorWriteFromCache ==
  [][/\ ColorOpStart
          => cache' = IF ops'[Len(ops')].kind = "setHue"
                      THEN [cache EXCEPT !.hue = ops'[Len(ops')].value.n]
                      ELSE [cache EXCEPT !.saturation = ops'[Len(ops')].value.n]
     /\ (Len(writes') = Len(writes) + 1 /\ writes'[Len(writes')].pid = "P1507")
          => /\ ColorOpStart
             /\ writes'[Len(writes')].value
                  = HexVal(HsvToHex(cache'.hue, cache'.saturation, 100))
    ]_vars

\* with brightness 40 cached, hue 120 and saturation 50 were flushed as 80FF80
C16_Witness ==
  /\ Len(ops) = 3
  /\ ops[1].kind = "setBrightness" /\ ops[1].cb = <<"ok">>
  /\ ops[2].kind = "setHue" /\ ops[2].value.n = 120
  /\ ops[3].kind = "setSaturation" /\ ops[3].value.n = 50
  /\ cache = [hue |-> 120, saturation |-> 50, brightness |-> 40]
  /\ Len(ColorWrites) = 1
  /\ ColorWrites[1].value = HexVal(<<"8", "0", "F", "F", "8", "0">>)

\* the cache the colour write of invocation j is issued from
CacheAtIssue(j) ==
  IF ops[j].kind = "setHue"
  THEN [ops[j].before EXCEPT !.hue = ops[j].value.n]
  ELSE [ops[j].before EXCEPT !.saturation = ops[j].value.n]

\* j is the first hue or saturation write after i
NextColorOp(i, j) ==
  /\ j \in DOMAIN ops
  /\ i < j
  /\ IsColorOp(j)
  /\ \A k \in DOMAIN ops : (i < k /\ k < j) => ~IsColorOp(k)

\* after a hue or saturation write whose colour write rejected: the flag is
\* still true and the next hue or saturation write flushes from the cache
\* of that moment
RejectedFlushStaysArmed ==
  \A i \in DOMAIN ops :
    (IsColorOp(i) /\ ops[i].solo /\ ops[i].pc = "done" /\ Rejected(i))
      => /\ (i = Len(ops)) => cacheUpdated
         /\ \A j \in DOMAIN ops :
              NextColorOp(i, j)
                => /\ Len(WritesOf(j)) = 1
                   /\ WritesOf(j)[1].pid = "P1507"
                   /\ WritesOf(j)[1].value
                        = HexVal(HsvToHex(CacheAtIssue(j).hue,
                                          CacheAtIssue(j).saturation, 100))

\* C17: a rejected colour flush does not disarm: the rejection leaves
\* cacheUpdated as it was, the next hue or saturation write issues a colour
\* write again, and the flag goes from true to false only in the step in which
\* a colour write resolves
C17_RejectedFlushStaysArmed ==
  /\ []RejectedFlushStaysArmed
  /\ [][/\ (\E k \in DOMAIN writes :
              /\ writes[k].pid = "P1507"
              /\ writes[k].status = "pending"
              /\ writes'[k].status = "rejected")
             => cacheUpdated' = cacheUpdated
        /\ (cacheUpdated /\ ~cacheUpdated')
             => \E k \in DOMAIN writes :
                  /\ writes[k].pid = "P1507"
                  /\ writes[k].status = "pending"
                  /\ writes'[k].status = "resolved"
       ]_vars

\* arm, a flush that rejected, and the next write flushing again
C17_Witness ==
  /\ Len(ops) = 3
  /\ IsColorOp(1) /\ WritesOf(1) = <<>>
  /\ IsColorOp(2) /\ ops[2].solo /\ ops[2].pc = "done" /\ Rejected(2)
  /\ IsColorOp(3) /\ ops[3].solo /\ Awaiting(3)
  /\ Len(ColorWrites) = 2
  /\ cacheUpdated

\* setOn, setBrightness or setColorTemperature invocation i started, or went
\* past its await, in this step
PlainWriteStep(i) ==
  /\ i \in DOMAIN ops'
  /\ ops'[i].kind \in {"setOn", "setBrightness", "setColorTemperature"}
  /\ (i \in DOMAIN ops => ops'[i].pc # ops[i].pc)

\* C18: no step of setOn, setBrightness or setColorTemperature, started or
\* resumed, resolved or rejected, changes cacheUpdated, the cached hue or the
\* cached saturation or issues a colour write; the cache changes only in the
\* brightness field, only when a setBrightness resumes after its write
\* resolved, and then to the value written
C18_PlainWritesLeaveColorState ==
  [][\A i \in 1..MaxOps :
       PlainWriteStep(i)
         => /\ cacheUpdated' = cacheUpdated
            /\ cache'.hue = cache.hue
            /\ cache'.saturation = cache.saturation
            /\ SelectSeq(writes', LAMBDA w : w.pid = "P1507") = ColorWrites
            /\ (cache' # cache)
                 => /\ ops'[i].kind = "setBrightness"
                    /\ Awaiting(i)
                    /\ ops'[i].cb = <<"ok">>
                    /\ \E k \in DOMAIN writes :
                         /\ writes[k].op = i
                         /\ writes[k].pid = "P1501"
                         /\ writes'[k].status = "resolved"
                    /\ cache' = [cache EXCEPT !.brightness = ops[i].value.n]
    ]_vars

\* while the machine is armed with a cached hue, a setBrightness resolved and
\* a setColorTemperature rejected
C18_Witness ==
  /\ Len(ops) = 3
  /\ ops[1].kind = "setHue" /\ ops[1].value.n = 120
  /\ ops[2].kind = "setBrightness" /\ ops[2].cb = <<"ok">>
  /\ ops[3].kind = "setColorTemperature" /\ ops[3].cb = <<"e1">>
  /\ cache = [hue |-> 120, saturation |-> undefined, brightness |-> 40]
  /\ cacheUpdated
  /\ ColorWrites = <<>>

====
